---- MODULE Spec2Model ----
(***************************************************************************)
(* Real-time collaboration layer of collab-notes-api                       *)
(* (src/src/sockets/socketHandler.ts) together with the authorization      *)
(* method of the Note model (src/src/models/Note.ts).                      *)
(*                                                                         *)
(* Every socket.io event handler is one action.  The two handlers that     *)
(* await Note.findById (join-note, note-update) are split at the await:    *)
(* the first action is the handler up to the database read, the second     *)
(* is the continuation, which runs to completion without yielding.         *)
(*                                                                         *)
(* The REST controllers over notes (src/src/controllers/noteController.ts) *)
(* are one action per route; a request is served in one step, after the    *)
(* authentication middleware of the router.                                *)
(***************************************************************************)
EXTENDS Integers, Sequences, FiniteSets, TLC

\* Number of socket connections ever opened (socket ids are never reused).
MaxConns == 2
\* Number of handlers that may be suspended on Note.findById at once.
MaxPending == 2

Conns == 1..MaxConns

\* Users of the seed data.
Users == {"dina", "mike"}
NoUser == "nobody"

\* Note ids a client may name: two stored notes, a well-formed id with no
\* document (findById resolves to null) and a malformed id (findById rejects).
StoredNotes == {"n1", "n2"}
MissingNote == "n3"
BadNote == "bad"
NoteIds == StoredNotes \cup {MissingNote, BadNote}

\* Handshake credentials: one valid token per user, no token, a forged token.
NoToken == "none"
BadToken == "forged"
Credentials == Users \cup {NoToken, BadToken}

VARIABLES
    notes,        \* the notes collection: note id -> document
    connState,    \* connection id -> "new" | "live" | "dead" | "refused"
    socketUser,   \* connection id -> socket.user.userId (NoUser before auth)
    socketRooms,  \* connection id -> note ids n with 'note:n' in socket.rooms
    noteRooms,    \* the noteRooms map: note id -> room.users (a sequence)
    userSockets,  \* the userSockets map: userId -> socket id
    pending,      \* handlers suspended on "await Note.findById(noteId)"
    outbox,       \* events emitted by the handler that ran last, in order
    last,         \* the handler that ran last and its outcome
    http          \* the REST request served last and its response

vars == <<notes, connState, socketUser, socketRooms, noteRooms, userSockets,
          pending, outbox, last, http>>

\* The three maps the handlers share.
shared == <<socketRooms, noteRooms, userSockets>>

----------------------------------------------------------------------------
(* Note documents and authorization *)

\* Texts a note may hold.
Contents == {"text1", "text2"}

\* The notes created by the seed script: dina's note shared with mike for
\* writing, and mike's private note.  A reference to a user is represented by
\* the string its toString() yields (the id while the path is not populated).
SeedNotes ==
    [n \in StoredNotes |->
        IF n = "n1"
        THEN [owner |-> "dina",
              collaborators |-> <<[user |-> "mike", role |-> "write"]>>,
              content |-> "text1", versions |-> <<>>]
        ELSE [owner |-> "mike", collaborators |-> <<>>,
              content |-> "text2", versions |-> <<>>]]

\* Mutation of isUserAuthorized: the collaborator's role is not looked at.
IsUserAuthorizedAnyRole(note, userId, requiredRole) ==
    \/ note.owner = userId
    \/ \E i \in 1..Len(note.collaborators) : note.collaborators[i].user = userId

\* noteSchema.methods.isUserAuthorized
IsUserAuthorized(note, userId, requiredRole) ==
    IF note.owner = userId THEN TRUE
    ELSE LET found == {i \in 1..Len(note.collaborators) :
                          note.collaborators[i].user = userId}
         IN  IF found = {} THEN FALSE
             ELSE IF requiredRole = "read" THEN TRUE
             ELSE LET i == CHOOSE j \in found : \A k \in found : j <= k
                  IN  note.collaborators[i].role = "write"

\* Outcome of "await Note.findById(noteId)": the document, null, or a
\* rejection (CastError for a malformed id).
FindById(db, noteId) ==
    IF noteId = BadNote THEN [kind |-> "throws"]
    ELSE IF noteId \in DOMAIN db THEN [kind |-> "doc", doc |-> db[noteId]]
    ELSE [kind |-> "null"]

\* The handlers' guard "!note || !note.isUserAuthorized(userId, role)", negated.
Allowed(res, userId, role) ==
    /\ res.kind = "doc"
    /\ IsUserAuthorized(res.doc, userId, role)

----------------------------------------------------------------------------
(* Transport (socket.io) *)

Live(c) == connState[c] = "live"

\* io.to('note:n'): every connected socket in the transport room.
IoTo(sr, n) == {d \in Conns : Live(d) /\ n \in sr[d]}

\* socket.to('note:n'): the transport room without the sending socket.
SocketTo(sr, c, n) == IoTo(sr, n) \ {c}

\* socket.emit: the socket itself; a closed socket drops the packet.
SocketSelf(c) == {d \in {c} : Live(d)}

\* One emitted event: its name, the connections it is delivered to, the note
\* and user it names, the activeUsers payload and the noteRooms map at the
\* moment of emission.
Emission(ev, to, n, userId, members, nr) ==
    [ev |-> ev, to |-> to, note |-> n, user |-> userId,
     activeUsers |-> members, message |-> "", rooms |-> nr]

\* socket.emit('error', { message }) of a handler of connection c.
ErrorEmission(c, n, userId, message, nr) ==
    [ev |-> "error", to |-> SocketSelf(c), note |-> n, user |-> userId,
     activeUsers |-> <<>>, message |-> message, rooms |-> nr]

\* room.users.map(u => ({ userId, username })): the user ids, in list order.
ActiveUsers(users) == [i \in 1..Len(users) |-> users[i].userId]

----------------------------------------------------------------------------
(* Room table *)

RemoveKey(f, k) == [x \in DOMAIN f \ {k} |-> f[x]]

\* Mutation of handleUserLeaveRoom: an emptied room is kept in the map.
HandleUserLeaveRoomKeepEmpty(nr, sr, noteId, userId) ==
    IF noteId \notin DOMAIN nr THEN [rooms |-> nr, out |-> <<>>]
    ELSE LET users == SelectSeq(nr[noteId], LAMBDA u : u.userId # userId)
             nr2 == [nr EXCEPT ![noteId] = users]
         IN  IF Len(users) = 0 THEN [rooms |-> nr2, out |-> <<>>]
             ELSE [rooms |-> nr2,
                   out |-> <<Emission("user-left", IoTo(sr, noteId), noteId,
                                      userId, ActiveUsers(users), nr2)>>]

\* Mutation of handleUserLeaveRoom: user-left carries the roster as it was
\* before the removal.
HandleUserLeaveRoomStaleRoster(nr, sr, noteId, userId) ==
    IF noteId \notin DOMAIN nr THEN [rooms |-> nr, out |-> <<>>]
    ELSE LET users == SelectSeq(nr[noteId], LAMBDA u : u.userId # userId)
             nr2 == [nr EXCEPT ![noteId] = users]
         IN  IF Len(users) = 0
             THEN [rooms |-> RemoveKey(nr, noteId), out |-> <<>>]
             ELSE [rooms |-> nr2,
                   out |-> <<Emission("user-left", IoTo(sr, noteId), noteId,
                                      userId, ActiveUsers(nr[noteId]), nr2)>>]

\* handleUserLeaveRoom(noteId, userId, io): the new noteRooms map and the
\* events emitted.  sr is the transport room table at the time of the call.
HandleUserLeaveRoom(nr, sr, noteId, userId) ==
    IF noteId \notin DOMAIN nr THEN [rooms |-> nr, out |-> <<>>]
    ELSE LET users == SelectSeq(nr[noteId], LAMBDA u : u.userId # userId)
             nr2 == [nr EXCEPT ![noteId] = users]
         IN  IF Len(users) = 0
             THEN [rooms |-> RemoveKey(nr, noteId), out |-> <<>>]
             ELSE [rooms |-> nr2,
                   out |-> <<Emission("user-left", IoTo(sr, noteId), noteId,
                                      userId, ActiveUsers(users), nr2)>>]

\* Mutation of the upsert: always push a new entry.
UpsertAlwaysPush(users, userId, socketId) ==
    Append(users, [userId |-> userId, socketId |-> socketId])

\* The upsert of the join-note handler: overwrite the socket id of the user's
\* entry, or push a new entry.
Upsert(users, userId, socketId) ==
    LET found == {i \in 1..Len(users) : users[i].userId = userId}
    IN  IF found # {}
        THEN LET i == CHOOSE j \in found : \A k \in found : j <= k
             IN  [users EXCEPT ![i].socketId = socketId]
        ELSE Append(users, [userId |-> userId, socketId |-> socketId])

\* getActiveUsersInNote(noteId): the room's users array itself, or [].
GetActiveUsersInNote(nr, noteId) ==
    IF noteId \in DOMAIN nr THEN nr[noteId] ELSE <<>>

----------------------------------------------------------------------------
(* join-note *)

\* The forEach of the join-note handler over the note rooms of socket.rooms:
\* socket.leave(room), then handleUserLeaveRoom(room, userId, io).
RECURSIVE LeaveCurrentRooms(_, _, _, _, _, _)
LeaveCurrentRooms(nr, sr, c, userId, todo, out) ==
    IF todo = {} THEN [rooms |-> nr, sr |-> sr, out |-> out]
    ELSE LET r == CHOOSE x \in todo : TRUE
             sr1 == [sr EXCEPT ![c] = @ \ {r}]
             h == HandleUserLeaveRoom(nr, sr1, r, userId)
         IN  LeaveCurrentRooms(h.rooms, sr1, c, userId, todo \ {r}, out \o h.out)

\* Mutation of the accepted join: the current note rooms are not left.
JoinAcceptedNoLeave(nr, sr, c, userId, noteId) ==
    LET sr2 == [sr EXCEPT ![c] = @ \cup {noteId}]
        nr1 == IF noteId \in DOMAIN nr THEN nr ELSE nr @@ (noteId :> <<>>)
        nr2 == [nr1 EXCEPT ![noteId] = Upsert(@, userId, c)]
        members == ActiveUsers(nr2[noteId])
    IN  [rooms |-> nr2, sr |-> sr2, result |-> "joined",
         out |-> <<Emission("user-joined", SocketTo(sr2, c, noteId), noteId,
                            userId, members, nr2),
                   Emission("joined-note", SocketSelf(c), noteId,
                            userId, members, nr2)>>]

\* Mutation of the accepted join: the new room is joined and announced first,
\* the rooms occupied before are left afterwards.
JoinAcceptedJoinFirst(nr, sr, c, userId, noteId) ==
    LET sr2 == [sr EXCEPT ![c] = @ \cup {noteId}]
        nr1 == IF noteId \in DOMAIN nr THEN nr ELSE nr @@ (noteId :> <<>>)
        nr2 == [nr1 EXCEPT ![noteId] = Upsert(@, userId, c)]
        members == ActiveUsers(nr2[noteId])
        left == LeaveCurrentRooms(nr2, sr2, c, userId, sr[c] \ {noteId}, <<>>)
    IN  [rooms |-> left.rooms, sr |-> left.sr, result |-> "joined",
         out |-> <<Emission("user-joined", SocketTo(sr2, c, noteId), noteId,
                            userId, members, nr2),
                   Emission("joined-note", SocketSelf(c), noteId,
                            userId, members, nr2)>> \o left.out]

\* Mutation of the accepted join: the member list of the notifications is
\* read before the upsert.
JoinAcceptedStaleSnapshot(nr, sr, c, userId, noteId) ==
    LET left == LeaveCurrentRooms(nr, sr, c, userId, sr[c], <<>>)
        sr2 == [left.sr EXCEPT ![c] = @ \cup {noteId}]
        nr1 == IF noteId \in DOMAIN left.rooms THEN left.rooms
               ELSE left.rooms @@ (noteId :> <<>>)
        nr2 == [nr1 EXCEPT ![noteId] = Upsert(@, userId, c)]
        members == ActiveUsers(nr1[noteId])
    IN  [rooms |-> nr2, sr |-> sr2, result |-> "joined",
         out |-> left.out \o
                 <<Emission("user-joined", SocketTo(sr2, c, noteId), noteId,
                            userId, members, nr2),
                   Emission("joined-note", SocketSelf(c), noteId,
                            userId, members, nr2)>>]

\* Mutation of the accepted join: user-joined is sent with io.to, to the whole
\* room, the joiner included.
JoinAcceptedNotifyAll(nr, sr, c, userId, noteId) ==
    LET left == LeaveCurrentRooms(nr, sr, c, userId, sr[c], <<>>)
        sr2 == [left.sr EXCEPT ![c] = @ \cup {noteId}]
        nr1 == IF noteId \in DOMAIN left.rooms THEN left.rooms
               ELSE left.rooms @@ (noteId :> <<>>)
        nr2 == [nr1 EXCEPT ![noteId] = Upsert(@, userId, c)]
        members == ActiveUsers(nr2[noteId])
    IN  [rooms |-> nr2, sr |-> sr2, result |-> "joined",
         out |-> left.out \o
                 <<Emission("user-joined", IoTo(sr2, noteId), noteId,
                            userId, members, nr2),
                   Emission("joined-note", SocketSelf(c), noteId,
                            userId, members, nr2)>>]

\* The part of the join-note handler after the authorization check: leave the
\* current note rooms, join the transport room, upsert the room entry, notify.
JoinAccepted(nr, sr, c, userId, noteId) ==
    LET left == LeaveCurrentRooms(nr, sr, c, userId, sr[c], <<>>)
        sr2 == [left.sr EXCEPT ![c] = @ \cup {noteId}]
        nr1 == IF noteId \in DOMAIN left.rooms THEN left.rooms
               ELSE left.rooms @@ (noteId :> <<>>)
        nr2 == [nr1 EXCEPT ![noteId] = Upsert(@, userId, c)]
        members == ActiveUsers(nr2[noteId])
    IN  [rooms |-> nr2, sr |-> sr2, result |-> "joined",
         out |-> left.out \o
                 <<Emission("user-joined", SocketTo(sr2, c, noteId), noteId,
                            userId, members, nr2),
                   Emission("joined-note", SocketSelf(c), noteId,
                            userId, members, nr2)>>]

\* Mutation of the join-note handler: the current rooms are left before the
\* authorization check decides.
JoinContinuationLeaveFirst(nr, sr, c, userId, noteId, res) ==
    LET left == LeaveCurrentRooms(nr, sr, c, userId, sr[c], <<>>)
    IN  IF res.kind = "throws"
        THEN [rooms |-> left.rooms, sr |-> left.sr, result |-> "failed",
              out |-> left.out \o
                  <<ErrorEmission(c, noteId, userId, "Failed to join note", left.rooms)>>]
        ELSE IF ~Allowed(res, userId, "read")
        THEN [rooms |-> left.rooms, sr |-> left.sr, result |-> "denied",
              out |-> left.out \o
                  <<ErrorEmission(c, noteId, userId, "Access denied to this note", left.rooms)>>]
        ELSE JoinAccepted(nr, sr, c, userId, noteId)

\* Mutation of the join-note handler: a refused join returns without emitting
\* the error.
JoinContinuationSilentDenial(nr, sr, c, userId, noteId, res) ==
    IF res.kind = "throws"
    THEN [rooms |-> nr, sr |-> sr, result |-> "failed",
          out |-> <<ErrorEmission(c, noteId, userId, "Failed to join note", nr)>>]
    ELSE IF ~Allowed(res, userId, "read")
    THEN [rooms |-> nr, sr |-> sr, result |-> "denied", out |-> <<>>]
    ELSE JoinAccepted(nr, sr, c, userId, noteId)

\* The join-note handler from the point where Note.findById has settled with
\* outcome res: the new noteRooms map, the new transport rooms, the events.
JoinContinuation(nr, sr, c, userId, noteId, res) ==
    IF res.kind = "throws"
    THEN [rooms |-> nr, sr |-> sr, result |-> "failed",
          out |-> <<ErrorEmission(c, noteId, userId, "Failed to join note", nr)>>]
    ELSE IF ~Allowed(res, userId, "read")
    THEN [rooms |-> nr, sr |-> sr, result |-> "denied",
          out |-> <<ErrorEmission(c, noteId, userId, "Access denied to this note", nr)>>]
    ELSE JoinAccepted(nr, sr, c, userId, noteId)

----------------------------------------------------------------------------
(* note-update, cursor-update *)

\* Mutation of the note-update handler: a sender that is in the room is not
\* asked for write access again.
UpdateContinuationTrustMembers(nr, sr, c, userId, noteId, res) ==
    IF res.kind = "throws"
    THEN [result |-> "failed",
          out |-> <<ErrorEmission(c, noteId, userId, "Failed to update note", nr)>>]
    ELSE IF noteId \notin sr[c] /\ ~Allowed(res, userId, "write")
    THEN [result |-> "denied",
          out |-> <<ErrorEmission(c, noteId, userId, "Write access denied", nr)>>]
    ELSE [result |-> "sent",
          out |-> <<Emission("note-updated", SocketTo(sr, c, noteId), noteId,
                             userId, <<>>, nr)>>]

\* The note-update handler from the point where Note.findById has settled.
UpdateContinuation(nr, sr, c, userId, noteId, res) ==
    IF res.kind = "throws"
    THEN [result |-> "failed",
          out |-> <<ErrorEmission(c, noteId, userId, "Failed to update note", nr)>>]
    ELSE IF ~Allowed(res, userId, "write")
    THEN [result |-> "denied",
          out |-> <<ErrorEmission(c, noteId, userId, "Write access denied", nr)>>]
    ELSE [result |-> "sent",
          out |-> <<Emission("note-updated", SocketTo(sr, c, noteId), noteId,
                             userId, <<>>, nr)>>]

\* Mutation of the cursor-update handler: io.to, the sender included.
CursorBroadcastToAll(nr, sr, c, userId, noteId) ==
    <<Emission("cursor-updated", IoTo(sr, noteId), noteId, userId, <<>>, nr)>>

\* The cursor-update handler.
CursorBroadcast(nr, sr, c, userId, noteId) ==
    <<Emission("cursor-updated", SocketTo(sr, c, noteId), noteId, userId, <<>>, nr)>>

----------------------------------------------------------------------------
(* disconnect *)

\* The forEach of the disconnect handler over the note rooms of socket.rooms.
RECURSIVE LeaveRoomsOnDisconnect(_, _, _, _, _)
LeaveRoomsOnDisconnect(nr, sr, userId, todo, out) ==
    IF todo = {} THEN [rooms |-> nr, out |-> out]
    ELSE LET r == CHOOSE x \in todo : TRUE
             h == HandleUserLeaveRoom(nr, sr, r, userId)
         IN  LeaveRoomsOnDisconnect(h.rooms, sr, userId, todo \ {r}, out \o h.out)

\* The disconnect handler: handleUserLeaveRoom for every note room still in
\* socket.rooms, then userSockets.delete(userId).
DisconnectHandler(nr, sr, us, c, userId) ==
    LET h == LeaveRoomsOnDisconnect(nr, sr, userId, sr[c], <<>>)
    IN  [rooms |-> h.rooms, userSockets |-> RemoveKey(us, userId), out |-> h.out]

\* What socket.io has done to the closing socket when it emits 'disconnect':
\* Socket._onclose emits 'disconnecting', then leaves every room (leaveAll),
\* and only then emits 'disconnect'; socket.rooms is empty in the handler.
TransportClose(sr, c) == [sr EXCEPT ![c] = {}]

----------------------------------------------------------------------------
(* State machine *)

NoEvent == [op |-> "none", conn |-> 0, note |-> "", result |-> ""]

\* A request field that is absent, and the empty response body.
Undefined == "undefined"
NoArgs == [title |-> Undefined, content |-> Undefined, target |-> NoUser,
           role |-> Undefined, page |-> 0, limit |-> 0]
NoData == [kind |-> "none"]

\* No REST request has been served yet.
NoExchange ==
    [op |-> "none", user |-> NoUser, note |-> "", args |-> NoArgs,
     status |-> 0, data |-> NoData]

Event(op, c, n, result) == [op |-> op, conn |-> c, note |-> n, result |-> result]

Init ==
    /\ notes = SeedNotes
    /\ connState = [c \in Conns |-> "new"]
    /\ socketUser = [c \in Conns |-> NoUser]
    /\ socketRooms = [c \in Conns |-> {}]
    /\ noteRooms = <<>>
    /\ userSockets = <<>>
    /\ pending = {}
    /\ outbox = <<>>
    /\ last = NoEvent
    /\ http = NoExchange

\* jwt.verify(token, secret): the payload's userId, or a failure.
VerifyToken(cred) == IF cred \in Users THEN cred ELSE NoUser

\* Mutation of the middleware: the socket is entered into userSockets before
\* the token is looked at.
ConnectRegisterFirst(c, cred) ==
    /\ connState[c] = "new"
    /\ \A d \in Conns : d < c => connState[d] # "new"
    /\ userSockets' = (VerifyToken(cred) :> c) @@ userSockets
    /\ IF cred = NoToken \/ VerifyToken(cred) = NoUser
       THEN /\ connState' = [connState EXCEPT ![c] = "refused"]
            /\ last' = Event("connect", c, "", "refused")
            /\ UNCHANGED socketUser
       ELSE /\ connState' = [connState EXCEPT ![c] = "live"]
            /\ socketUser' = [socketUser EXCEPT ![c] = VerifyToken(cred)]
            /\ last' = Event("connect", c, "", "accepted")
    /\ outbox' = <<>>
    /\ UNCHANGED <<notes, http, socketRooms, noteRooms, pending>>

\* io.use middleware: a client opens connection c with credential cred.
Connect(c, cred) ==
    /\ connState[c] = "new"
    /\ \A d \in Conns : d < c => connState[d] # "new"
    /\ IF cred = NoToken \/ VerifyToken(cred) = NoUser
       THEN /\ connState' = [connState EXCEPT ![c] = "refused"]
            /\ last' = Event("connect", c, "", "refused")
            /\ UNCHANGED <<socketUser, userSockets>>
       ELSE /\ connState' = [connState EXCEPT ![c] = "live"]
            /\ socketUser' = [socketUser EXCEPT ![c] = VerifyToken(cred)]
            /\ userSockets' = (VerifyToken(cred) :> c) @@ userSockets
            /\ last' = Event("connect", c, "", "accepted")
    /\ outbox' = <<>>
    /\ UNCHANGED <<notes, http, socketRooms, noteRooms, pending>>

\* join-note up to "await Note.findById(noteId)".
JoinNote(c, noteId) ==
    /\ Live(c)
    /\ Cardinality(pending) < MaxPending
    /\ pending' = pending \cup
           {[op |-> "join-note", conn |-> c, note |-> noteId,
             res |-> FindById(notes, noteId)]}
    /\ outbox' = <<>>
    /\ last' = Event("join-note", c, noteId, "awaiting")
    /\ UNCHANGED <<notes, http, connState, socketUser, shared>>

\* join-note after the await.
JoinNoteResume(p) ==
    /\ p \in pending
    /\ p.op = "join-note"
    /\ LET k == JoinContinuation(noteRooms, socketRooms, p.conn,
                                 socketUser[p.conn], p.note, p.res)
       IN  /\ noteRooms' = k.rooms
           /\ socketRooms' = k.sr
           /\ outbox' = k.out
           /\ last' = Event("join-note", p.conn, p.note, k.result)
    /\ pending' = pending \ {p}
    /\ UNCHANGED <<notes, http, connState, socketUser, userSockets>>

\* leave-note.
LeaveNote(c, noteId) ==
    /\ Live(c)
    /\ LET sr1 == [socketRooms EXCEPT ![c] = @ \ {noteId}]
           h == HandleUserLeaveRoom(noteRooms, sr1, noteId, socketUser[c])
       IN  /\ socketRooms' = sr1
           /\ noteRooms' = h.rooms
           /\ outbox' = h.out
    /\ last' = Event("leave-note", c, noteId,
                     IF noteId \in DOMAIN noteRooms /\ noteId \notin DOMAIN noteRooms'
                     THEN "room-deleted"
                     ELSE IF noteId \in socketRooms[c] THEN "left" ELSE "done")
    /\ UNCHANGED <<notes, http, connState, socketUser, userSockets, pending>>

\* note-update up to "await Note.findById(noteId)".
NoteUpdate(c, noteId) ==
    /\ Live(c)
    /\ Cardinality(pending) < MaxPending
    /\ pending' = pending \cup
           {[op |-> "note-update", conn |-> c, note |-> noteId,
             res |-> FindById(notes, noteId)]}
    /\ outbox' = <<>>
    /\ last' = Event("note-update", c, noteId, "awaiting")
    /\ UNCHANGED <<notes, http, connState, socketUser, shared>>

\* note-update after the await.
NoteUpdateResume(p) ==
    /\ p \in pending
    /\ p.op = "note-update"
    /\ LET k == UpdateContinuation(noteRooms, socketRooms, p.conn,
                                   socketUser[p.conn], p.note, p.res)
       IN  /\ outbox' = k.out
           /\ last' = Event("note-update", p.conn, p.note, k.result)
    /\ pending' = pending \ {p}
    /\ UNCHANGED <<notes, http, connState, socketUser, shared>>

\* cursor-update.
CursorUpdate(c, noteId) ==
    /\ Live(c)
    /\ outbox' = CursorBroadcast(noteRooms, socketRooms, c, socketUser[c], noteId)
    /\ last' = Event("cursor-update", c, noteId, "sent")
    /\ UNCHANGED <<notes, http, connState, socketUser, shared, pending>>

\* The transport closes connection c and the disconnect handler runs.
Disconnect(c) ==
    /\ Live(c)
    /\ connState' = [connState EXCEPT ![c] = "dead"]
    /\ LET sr1 == TransportClose(socketRooms, c)
           h == DisconnectHandler(noteRooms, sr1, userSockets, c, socketUser[c])
       IN  /\ socketRooms' = sr1
           /\ noteRooms' = h.rooms
           /\ userSockets' = h.userSockets
           /\ outbox' = h.out
    /\ last' = Event("disconnect", c, "", "done")
    /\ UNCHANGED <<notes, http, socketUser, pending>>

Next ==
    \/ \E c \in Conns, cred \in Credentials : Connect(c, cred)
    \/ \E c \in Conns, n \in NoteIds : JoinNote(c, n)
    \/ \E p \in pending : JoinNoteResume(p)
    \/ \E c \in Conns, n \in NoteIds : LeaveNote(c, n)
    \/ \E c \in Conns, n \in NoteIds : NoteUpdate(c, n)
    \/ \E p \in pending : NoteUpdateResume(p)
    \/ \E c \in Conns, n \in NoteIds : CursorUpdate(c, n)
    \/ \E c \in Conns : Disconnect(c)

Spec == Init /\ [][Next]_vars

\* A database in which mike has added dina to his note as a read collaborator
\* (POST /api/notes/:id/collaborators with the default role).
SharedNotes ==
    [SeedNotes EXCEPT !["n2"].collaborators = <<[user |-> "dina", role |-> "read"]>>]

InitShared ==
    /\ notes = SharedNotes
    /\ connState = [c \in Conns |-> "new"]
    /\ socketUser = [c \in Conns |-> NoUser]
    /\ socketRooms = [c \in Conns |-> {}]
    /\ noteRooms = <<>>
    /\ userSockets = <<>>
    /\ pending = {}
    /\ outbox = <<>>
    /\ last = NoEvent
    /\ http = NoExchange

SpecShared == InitShared /\ [][Next]_vars

----------------------------------------------------------------------------
(* REST API over notes (src/src/controllers/noteController.ts) *)

\* Largest page number and page size a client asks for.
MaxPage == 2
MaxLimit == 2
\* A note is created only while the collection holds fewer documents than this.
MaxNotes == 1

\* Length at which addVersion cuts the version history.
VersionLimit == 50

\* Email / id a client may name as collaborator: a user, or nobody's.
Targets == Users \cup {NoUser}
\* A collaboratorId that is not a well-formed ObjectId.
BadUser == "bad"
Roles == {"read", "write"}

\* Bodies of PUT /api/notes/:id: empty, a title only, one of the texts.  The
\* title of a note is not part of the state.
UpdateBodies ==
    {[title |-> Undefined, content |-> Undefined],
     [title |-> "title", content |-> Undefined]}
    \cup {[title |-> Undefined, content |-> c] : c \in Contents}

\* toString() of a populated path: the rendering of the user document.
Inspect(ref) == "{ _id: " \o ref \o ", username, email }"

\* .populate('owner').populate('collaborators.user').populate('versions.modifiedBy')
Populate(note) ==
    [note EXCEPT
        !.owner = Inspect(@),
        !.collaborators = [i \in DOMAIN @ |-> [@[i] EXCEPT !.user = Inspect(@)]],
        !.versions = [i \in DOMAIN @ |-> [@[i] EXCEPT !.modifiedBy = Inspect(@)]]]

\* .populate('collaborators.user') of a document whose owner stays a reference.
PopulateCollaborators(note) ==
    [note EXCEPT
        !.collaborators = [i \in DOMAIN @ |-> [@[i] EXCEPT !.user = Inspect(@)]]]

\* Mutation of addVersion: the history is cut to its first 50 entries.
AddVersionKeepOldest(note, content, modifiedBy) ==
    IF note.content # content
    THEN LET pushed == Append(note.versions,
                              [content |-> note.content, modifiedBy |-> modifiedBy])
         IN  [note EXCEPT !.versions =
                 IF Len(pushed) > VersionLimit
                 THEN SubSeq(pushed, 1, VersionLimit)
                 ELSE pushed]
    ELSE note

\* noteSchema.methods.addVersion
AddVersion(note, content, modifiedBy) ==
    IF note.content # content
    THEN LET pushed == Append(note.versions,
                              [content |-> note.content, modifiedBy |-> modifiedBy])
         IN  [note EXCEPT !.versions =
                 IF Len(pushed) > VersionLimit
                 THEN SubSeq(pushed, Len(pushed) - VersionLimit + 1, Len(pushed))
                 ELSE pushed]
    ELSE note

\* mongoose.Types.ObjectId.isValid(id)
IsValid(id) == id \notin {BadNote, BadUser}

\* Mutation of authenticateToken: a token that fails verification is let through.
AuthenticateTokenLax(cred) ==
    IF cred = NoToken THEN 401 ELSE 0

\* authenticateToken: 0 stands for next(), otherwise the status of the reply.
AuthenticateToken(cred) ==
    IF cred = NoToken THEN 401
    ELSE IF VerifyToken(cred) = NoUser THEN 403
    ELSE 0

\* A handler's outcome: the collection afterwards, the status, the body.
Reply(db, status, data) == [db |-> db, status |-> status, data |-> data]

\* The exchange recorded for a served request.
Exchange(op, cred, id, args, status, data) ==
    [op |-> op, user |-> cred, note |-> id, args |-> args,
     status |-> status, data |-> data]

\* The routes of src/src/routes/notes.ts.
Routes == {"create", "list", "get", "update", "delete", "add-collaborator",
           "remove-collaborator", "versions"}

\* router.use(authenticateToken) answers a request to any route itself: the
\* route parameters and the body are never read.
Unauthenticated(op, cred) ==
    /\ AuthenticateToken(cred) # 0
    /\ http' = Exchange(op, cred, "", NoArgs, AuthenticateToken(cred), NoData)
    /\ UNCHANGED notes

\* The middleware called next(): the controller runs as req.user and replies.
Serve(op, cred, id, args, reply) ==
    /\ AuthenticateToken(cred) = 0
    /\ notes' = reply.db
    /\ http' = Exchange(op, cred, id, args, reply.status, reply.data)

\* The notes matched by { $or: [{ owner }, { 'collaborators.user' }] }.
Matching(db, userId) ==
    {n \in DOMAIN db :
        \/ db[n].owner = userId
        \/ \E i \in 1..Len(db[n].collaborators) : db[n].collaborators[i].user = userId}

\* The orders .sort({ updatedAt: -1 }) may give a set of notes (timestamps
\* are not part of the state).
Orders(S) ==
    {f \in [1..Cardinality(S) -> S] : \A i, j \in DOMAIN f : f[i] = f[j] => i = j}

\* .limit(limit).skip((page - 1) * limit) of an ordered result.
PageOf(order, page, limit) ==
    LET from == (page - 1) * limit + 1
        to == IF page * limit < Len(order) THEN page * limit ELSE Len(order)
    IN  SubSeq(order, from, to)

\* createNote
CreateNoteHandler(db, userId, id, content) ==
    Reply(db @@ (id :> [owner |-> userId, collaborators |-> <<>>,
                        content |-> content, versions |-> <<>>]),
          201,
          [kind |-> "note", id |-> id])

\* Mutation of getNotes: the query is not restricted to the user.
GetNotesHandlerAll(db, userId, order, page, limit) ==
    Reply(db, 200,
          [kind |-> "list",
           notes |-> PageOf(CHOOSE f \in Orders(DOMAIN db) : TRUE, page, limit),
           total |-> Cardinality(DOMAIN db)])

\* getNotes, for one order of the matching notes
GetNotesHandler(db, userId, order, page, limit) ==
    Reply(db, 200,
          [kind |-> "list",
           notes |-> PageOf(order, page, limit),
           total |-> Cardinality(Matching(db, userId))])

\* getNote: the document is populated before isUserAuthorized is called.
GetNoteHandler(db, userId, id) ==
    IF ~IsValid(id) THEN Reply(db, 400, NoData)
    ELSE IF id \notin DOMAIN db THEN Reply(db, 404, NoData)
    ELSE IF ~IsUserAuthorized(Populate(db[id]), userId, "read")
    THEN Reply(db, 403, NoData)
    ELSE Reply(db, 200, [kind |-> "note", id |-> id, note |-> Populate(db[id])])

\* updateNote
UpdateNoteHandler(db, userId, id, body) ==
    IF ~IsValid(id) THEN Reply(db, 400, NoData)
    ELSE IF id \notin DOMAIN db THEN Reply(db, 404, NoData)
    ELSE IF ~IsUserAuthorized(db[id], userId, "write") THEN Reply(db, 403, NoData)
    ELSE LET note == db[id]
             versioned == IF body.content # Undefined /\ body.content # note.content
                          THEN AddVersion(note, note.content, userId)
                          ELSE note
             saved == IF body.content # Undefined
                      THEN [versioned EXCEPT !.content = body.content]
                      ELSE versioned
         IN  Reply([db EXCEPT ![id] = saved], 200,
                   [kind |-> "note", id |-> id, note |-> Populate(saved)])

\* Mutation of deleteNote: whoever may write may delete.
DeleteNoteHandlerWriters(db, userId, id) ==
    IF ~IsValid(id) THEN Reply(db, 400, NoData)
    ELSE IF id \notin DOMAIN db THEN Reply(db, 404, NoData)
    ELSE IF ~IsUserAuthorized(db[id], userId, "write") THEN Reply(db, 403, NoData)
    ELSE Reply([n \in DOMAIN db \ {id} |-> db[n]], 200, NoData)

\* deleteNote
DeleteNoteHandler(db, userId, id) ==
    IF ~IsValid(id) THEN Reply(db, 400, NoData)
    ELSE IF id \notin DOMAIN db THEN Reply(db, 404, NoData)
    ELSE IF db[id].owner # userId THEN Reply(db, 403, NoData)
    ELSE Reply([n \in DOMAIN db \ {id} |-> db[n]], 200, NoData)

\* The find / update-role / push of addCollaborator on a collaborators array.
UpsertCollaborator(collaborators, user, role) ==
    LET found == {i \in 1..Len(collaborators) : collaborators[i].user = user}
    IN  IF found # {}
        THEN LET i == CHOOSE j \in found : \A k \in found : j <= k
             IN  [collaborators EXCEPT ![i].role = role]
        ELSE Append(collaborators, [user |-> user, role |-> role])

\* Mutation of addCollaborator: a collaborator with write access may manage
\* the collaborators as the owner does.
AddCollaboratorHandlerWriters(db, userId, id, email, role) ==
    IF ~IsValid(id) THEN Reply(db, 400, NoData)
    ELSE IF id \notin DOMAIN db THEN Reply(db, 404, NoData)
    ELSE IF ~IsUserAuthorized(db[id], userId, "write") THEN Reply(db, 403, NoData)
    ELSE IF email \notin Users THEN Reply(db, 404, NoData)
    ELSE LET saved == [db[id] EXCEPT
                          !.collaborators = UpsertCollaborator(@, email, role)]
         IN  Reply([db EXCEPT ![id] = saved], 200,
                   [kind |-> "note", id |-> id, note |-> PopulateCollaborators(saved)])

\* Mutation of addCollaborator: the new entry is pushed without looking for
\* an existing one.
AddCollaboratorHandlerPush(db, userId, id, email, role) ==
    IF ~IsValid(id) THEN Reply(db, 400, NoData)
    ELSE IF id \notin DOMAIN db THEN Reply(db, 404, NoData)
    ELSE IF db[id].owner # userId THEN Reply(db, 403, NoData)
    ELSE IF email \notin Users THEN Reply(db, 404, NoData)
    ELSE LET saved == [db[id] EXCEPT
                          !.collaborators = Append(@, [user |-> email, role |-> role])]
         IN  Reply([db EXCEPT ![id] = saved], 200,
                   [kind |-> "note", id |-> id, note |-> PopulateCollaborators(saved)])

\* addCollaborator (a user is named by the email of the account)
AddCollaboratorHandler(db, userId, id, email, role) ==
    IF ~IsValid(id) THEN Reply(db, 400, NoData)
    ELSE IF id \notin DOMAIN db THEN Reply(db, 404, NoData)
    ELSE IF db[id].owner # userId THEN Reply(db, 403, NoData)
    ELSE IF email \notin Users THEN Reply(db, 404, NoData)
    ELSE LET saved == [db[id] EXCEPT
                          !.collaborators = UpsertCollaborator(@, email, role)]
         IN  Reply([db EXCEPT ![id] = saved], 200,
                   [kind |-> "note", id |-> id, note |-> PopulateCollaborators(saved)])

\* note.collaborators.filter(c => c.user.toString() !== collaboratorId)
FilterCollaborators(collaborators, collaboratorId) ==
    SelectSeq(collaborators, LAMBDA c : c.user # collaboratorId)

\* removeCollaborator
RemoveCollaboratorHandler(db, userId, id, collaboratorId) ==
    IF ~IsValid(id) \/ ~IsValid(collaboratorId) THEN Reply(db, 400, NoData)
    ELSE IF id \notin DOMAIN db THEN Reply(db, 404, NoData)
    ELSE IF db[id].owner # userId THEN Reply(db, 403, NoData)
    ELSE LET saved == [db[id] EXCEPT
                          !.collaborators = FilterCollaborators(@, collaboratorId)]
         IN  Reply([db EXCEPT ![id] = saved], 200,
                   [kind |-> "note", id |-> id, note |-> PopulateCollaborators(saved)])

\* getNoteVersions: only versions.modifiedBy is populated.
GetNoteVersionsHandler(db, userId, id) ==
    IF ~IsValid(id) THEN Reply(db, 400, NoData)
    ELSE IF id \notin DOMAIN db THEN Reply(db, 404, NoData)
    ELSE IF ~IsUserAuthorized(db[id], userId, "read") THEN Reply(db, 403, NoData)
    ELSE Reply(db, 200, [kind |-> "versions", id |-> id,
                         versions |-> Populate(db[id]).versions])

\* POST /api/notes: the new document gets an id no document has had.
CreateNote(cred, content) ==
    /\ MissingNote \notin DOMAIN notes
    /\ Cardinality(DOMAIN notes) < MaxNotes
    /\ Serve("create", cred, MissingNote, [NoArgs EXCEPT !.content = content],
             CreateNoteHandler(notes, VerifyToken(cred), MissingNote, content))

\* GET /api/notes?page=&limit=
GetNotes(cred, page, limit) ==
    \E order \in Orders(Matching(notes, VerifyToken(cred))) :
        Serve("list", cred, "", [NoArgs EXCEPT !.page = page, !.limit = limit],
              GetNotesHandler(notes, VerifyToken(cred), order, page, limit))

\* GET /api/notes/:id
GetNote(cred, id) ==
    Serve("get", cred, id, NoArgs, GetNoteHandler(notes, VerifyToken(cred), id))

\* PUT /api/notes/:id; validate(updateNoteSchema) refuses an empty body.
UpdateNote(cred, id, body) ==
    LET args == [NoArgs EXCEPT !.title = body.title, !.content = body.content]
    IN  IF body.title = Undefined /\ body.content = Undefined
        THEN Serve("update", cred, id, args, Reply(notes, 400, NoData))
        ELSE Serve("update", cred, id, args, UpdateNoteHandler(notes, VerifyToken(cred), id, body))

\* DELETE /api/notes/:id
DeleteNote(cred, id) ==
    Serve("delete", cred, id, NoArgs, DeleteNoteHandler(notes, VerifyToken(cred), id))

\* POST /api/notes/:id/collaborators
AddCollaborator(cred, id, email, role) ==
    Serve("add-collaborator", cred, id,
          [NoArgs EXCEPT !.target = email, !.role = role],
          AddCollaboratorHandler(notes, VerifyToken(cred), id, email, role))

\* DELETE /api/notes/:id/collaborators/:collaboratorId
RemoveCollaborator(cred, id, collaboratorId) ==
    Serve("remove-collaborator", cred, id,
          [NoArgs EXCEPT !.target = collaboratorId],
          RemoveCollaboratorHandler(notes, VerifyToken(cred), id, collaboratorId))

\* GET /api/notes/:id/versions
GetNoteVersions(cred, id) ==
    Serve("versions", cred, id, NoArgs, GetNoteVersionsHandler(notes, VerifyToken(cred), id))

\* The variables of the real-time layer.
sockets == <<connState, socketUser, socketRooms, noteRooms, userSockets,
             pending, outbox, last>>

NextRest ==
    /\ UNCHANGED sockets
    /\ \/ \E op \in Routes, cred \in Credentials : Unauthenticated(op, cred)
       \/ \E cred \in Credentials, c \in Contents : CreateNote(cred, c)
       \/ \E cred \in Credentials, p \in 1..MaxPage, l \in 1..MaxLimit :
             GetNotes(cred, p, l)
       \/ \E cred \in Credentials, n \in NoteIds : GetNote(cred, n)
       \/ \E cred \in Credentials, n \in NoteIds, b \in UpdateBodies :
             UpdateNote(cred, n, b)
       \/ \E cred \in Credentials, n \in NoteIds : DeleteNote(cred, n)
       \/ \E cred \in Credentials, n \in NoteIds, t \in Targets, r \in Roles :
             AddCollaborator(cred, n, t, r)
       \/ \E cred \in Credentials, n \in NoteIds, t \in Targets \cup {BadUser} :
             RemoveCollaborator(cred, n, t)
       \/ \E cred \in Credentials, n \in NoteIds : GetNoteVersions(cred, n)

\* The REST API alone, on the seeded database.
SpecRest == Init /\ [][NextRest]_vars

----------------------------------------------------------------------------
(* addVersion on documents with a long history *)

\* Number of consecutive addVersion calls made on one document.
MaxCalls == 2

\* A history of k versions: the texts alternate, as do the users.
History(k) ==
    [i \in 1..k |->
        [content |-> IF i % 2 = 1 THEN "text1" ELSE "text2",
         modifiedBy |-> IF i % 4 < 2 THEN "dina" ELSE "mike"]]

\* dina's note after k changes of its content, now holding text c.
NoteWithHistory(k, c) ==
    [owner |-> "dina", collaborators |-> <<[user |-> "mike", role |-> "write"]>>,
     content |-> c, versions |-> History(k)]

\* The record of an addVersion call: the document it was made on and the
\* number of calls made so far.
Called(before, made) == [kind |-> "addVersion", before |-> before, made |-> made]

InitVersions ==
    /\ \E k \in 0..VersionLimit, c \in Contents :
          notes = [n \in {"n1"} |-> NoteWithHistory(k, c)]
    /\ connState = [c \in Conns |-> "new"]
    /\ socketUser = [c \in Conns |-> NoUser]
    /\ socketRooms = [c \in Conns |-> {}]
    /\ noteRooms = <<>>
    /\ userSockets = <<>>
    /\ pending = {}
    /\ outbox = <<>>
    /\ last = NoEvent
    /\ http = [NoExchange EXCEPT !.data = Called(NoData, 0)]

\* note.addVersion(content, modifiedBy) on stored note n.
AddVersionCall(n, content, modifiedBy) ==
    /\ http.data.made < MaxCalls
    /\ notes' = [notes EXCEPT ![n] = AddVersion(@, content, modifiedBy)]
    /\ http' = Exchange("addVersion", modifiedBy, n,
                        [NoArgs EXCEPT !.content = content], 0,
                        Called(notes[n], http.data.made + 1))
    /\ UNCHANGED sockets

NextVersions ==
    \E n \in DOMAIN notes, c \in Contents, u \in Users : AddVersionCall(n, c, u)

\* addVersion applied to documents whose history has any length up to the limit.
SpecVersions == InitVersions /\ [][NextVersions]_vars

----------------------------------------------------------------------------
(* The real-time layer while the owner revokes collaborators *)

\* The owner of a note removes one of its collaborators over the REST API.
Revoke ==
    /\ UNCHANGED sockets
    /\ \E n \in DOMAIN notes :
          \E i \in 1..Len(notes[n].collaborators) :
              RemoveCollaborator(notes[n].owner, n, notes[n].collaborators[i].user)

NextRevoke == Next \/ Revoke

SpecRevoke == Init /\ [][NextRevoke]_vars

----------------------------------------------------------------------------
(* Settling of the lookups *)

\* The join-note handlers that can be suspended at "await Note.findById":
\* one per connection and note id, with the outcome of the lookup.
JoinRequests ==
    {[op |-> "join-note", conn |-> c, note |-> n, res |-> FindById(SeedNotes, n)] :
        c \in Conns, n \in NoteIds}

\* The events that decide whether and how a join-note is answered: the
\* handshake, join-note and its continuation, leave-note and the disconnect.
\* note-update and cursor-update change no room and settle no join.
NextSettle ==
    \/ \E c \in Conns, cred \in Credentials : Connect(c, cred)
    \/ \E c \in Conns, n \in NoteIds : JoinNote(c, n)
    \/ \E p \in pending : JoinNoteResume(p)
    \/ \E c \in Conns, n \in NoteIds : LeaveNote(c, n)
    \/ \E c \in Conns : Disconnect(c)

\* Every promise returned by Note.findById settles, and the event loop then
\* runs the continuation of the handler that awaits it.
SpecSettle ==
    /\ Init
    /\ [][NextSettle]_vars
    /\ \A p \in JoinRequests : WF_vars(JoinNoteResume(p))

----------------------------------------------------------------------------
(* Vocabulary of the properties *)

\* Connection c occupies room n: 'note:n' is in its transport room set.
Occupies(c, n) == n \in socketRooms[c]

\* Room n of the map nr has an entry carrying socket id c.
Listed(nr, n, c) ==
    /\ n \in DOMAIN nr
    /\ \E i \in 1..Len(nr[n]) : nr[n][i].socketId = c

\* Room n of the map nr has an entry of user u carrying socket id c.
ListedAs(nr, n, c, u) ==
    /\ n \in DOMAIN nr
    /\ \E i \in 1..Len(nr[n]) : nr[n][i].userId = u /\ nr[n][i].socketId = c

\* Room n of the map nr has an entry of user u.
UserListed(nr, n, u) ==
    /\ n \in DOMAIN nr
    /\ \E i \in 1..Len(nr[n]) : nr[n][i].userId = u

RoomsListing(nr, c) == {n \in NoteIds : Listed(nr, n, c)}

\* The step is the continuation of a join-note handler that passed the
\* authorization check.
JoinedStep == last'.op = "join-note" /\ last'.result = "joined"

----------------------------------------------------------------------------
(* C1 *)

\* C1: for every live connection c and every note n, c occupies room n if and
\* only if noteRooms[n] has an entry of c's user whose socketId is c.
C1_OccupiesIffListed ==
    \A c \in Conns : \A n \in NoteIds :
        Live(c) => (Occupies(c, n) <=> ListedAs(noteRooms, n, c, socketUser[c]))

----------------------------------------------------------------------------
(* C2 *)

\* C2: when a connection occupying room n disconnects, the leave transition is
\* run for n (the entry is removed, the room deleted if empty, user-left sent to
\* the remaining members otherwise), and afterwards no room lists the
\* connection's id.
C2_DisconnectRunsLeave ==
    [][\A c \in Conns :
          (Disconnect(c) /\ socketRooms[c] # {}) =>
              /\ \A n \in socketRooms[c] :
                    LET h == HandleUserLeaveRoom(noteRooms, socketRooms', n, socketUser[c])
                    IN  noteRooms' = h.rooms /\ outbox' = h.out
              /\ \A n \in NoteIds : ~Listed(noteRooms', n, c)]_vars

----------------------------------------------------------------------------
(* C3 *)

\* C3: a note-update or cursor-update naming a room the sender does not occupy
\* delivers no note-updated or cursor-updated event to any connection.
C3_NoUpdateFromOutsideRoom ==
    (/\ last.op \in {"note-update", "cursor-update"}
     /\ last.result # "awaiting"
     /\ ~Occupies(last.conn, last.note))
    => \A i \in 1..Len(outbox) :
          outbox[i].ev \in {"note-updated", "cursor-updated"} => outbox[i].to = {}

----------------------------------------------------------------------------
(* C4 *)

\* C4: leave-note(n) from a connection that does not occupy room n changes
\* neither noteRooms nor any connection's room membership and emits no event.
C4_LeaveOutsideRoomIsNoOp ==
    [][\A c \in Conns : \A n \in NoteIds :
          (LeaveNote(c, n) /\ ~Occupies(c, n)) =>
              /\ UNCHANGED <<noteRooms, socketRooms>>
              /\ outbox' = <<>>]_vars

----------------------------------------------------------------------------
(* C5 *)

\* C5: a join-note or note-update that ends in an error (authorization refused,
\* no such note, failing lookup) leaves noteRooms, userSockets and every
\* connection's room membership as they were before the handler resumed.
C5_RejectionMutatesNothing ==
    [][(/\ last'.op \in {"join-note", "note-update"}
        /\ last'.result \in {"denied", "failed"})
       => UNCHANGED <<noteRooms, userSockets, socketRooms>>]_vars

\* A join was denied while the connection occupies a room it is listed in.
C5_Witness ==
    /\ last.op = "join-note"
    /\ last.result = "denied"
    /\ \E n \in NoteIds :
          Occupies(last.conn, n) /\ Listed(noteRooms, n, last.conn)

----------------------------------------------------------------------------
(* C6 *)

\* C6: when an open connection occupying room A completes an authorized join
\* of a different room B, user-left for A (if A keeps members) is emitted, to
\* every listed live member, before user-joined for B and before joined-note;
\* no event of the handler is emitted while the connection is listed in two
\* rooms, and afterwards it occupies and is listed in B only.
C6_LeaveBeforeJoin ==
    [][(/\ JoinedStep
        /\ Live(last'.conn)
        /\ socketRooms[last'.conn] \ {last'.note} # {}) =>
            LET c == last'.conn
                B == last'.note
            IN  /\ \A A \in socketRooms[c] \ {B} :
                      /\ A \notin socketRooms'[c]
                      /\ ~Listed(noteRooms', A, c)
                      /\ A \in DOMAIN noteRooms' =>
                            \E i \in 1..Len(outbox') :
                              /\ outbox'[i].ev = "user-left"
                              /\ outbox'[i].note = A
                              /\ c \notin outbox'[i].to
                              /\ \A k \in 1..Len(noteRooms'[A]) :
                                    Live(noteRooms'[A][k].socketId) =>
                                        noteRooms'[A][k].socketId \in outbox'[i].to
                /\ \A i, j \in 1..Len(outbox') :
                      (/\ outbox'[i].ev = "user-left"
                       /\ outbox'[j].ev \in {"user-joined", "joined-note"}) => i < j
                /\ \A i \in 1..Len(outbox') :
                      Cardinality(RoomsListing(outbox'[i].rooms, c)) <= 1
                /\ B \in socketRooms'[c]
                /\ RoomsListing(noteRooms', c) = {B}]_vars

\* A switch was completed and the old room's remaining member was told first.
C6_Witness ==
    /\ last.op = "join-note"
    /\ last.result = "joined"
    /\ Len(outbox) = 3
    /\ outbox[1].ev = "user-left"
    /\ outbox[1].note # last.note
    /\ outbox[1].to # {}
    /\ outbox[2].ev = "user-joined"
    /\ outbox[3].ev = "joined-note"

----------------------------------------------------------------------------
(* C7 *)

----------------------------------------------------------------------------
(* C8 *)

\* No room lists a user twice.
OneEntryPerUser ==
    \A n \in DOMAIN noteRooms :
        \A i, j \in 1..Len(noteRooms[n]) :
            noteRooms[n][i].userId = noteRooms[n][j].userId => i = j

\* C8: every room lists a user at most once; a join of room n by a user already
\* listed in n leaves the length of the list unchanged and makes the user's
\* entry carry the joining connection's id.
C8_UpsertReplaces ==
    /\ []OneEntryPerUser
    /\ [][(/\ JoinedStep
            /\ UserListed(noteRooms, last'.note, socketUser[last'.conn]))
           => /\ Len(noteRooms'[last'.note]) = Len(noteRooms[last'.note])
              /\ ListedAs(noteRooms', last'.note, last'.conn,
                          socketUser[last'.conn])]_vars

\* A user joined from a second connection the room that a first, still open
\* connection of the same user occupies: the entry now carries the second id.
C8_Witness ==
    /\ last.op = "join-note"
    /\ last.result = "joined"
    /\ Len(noteRooms[last.note]) = 1
    /\ noteRooms[last.note][1].socketId = last.conn
    /\ \E d \in Conns :
          /\ d # last.conn
          /\ Live(d)
          /\ socketUser[d] = socketUser[last.conn]
          /\ Occupies(d, last.note)

----------------------------------------------------------------------------
(* C9 *)

\* C9: between handlers, noteRooms holds no room with an empty member list.
C9_NoEmptyRoom ==
    \A n \in DOMAIN noteRooms : Len(noteRooms[n]) > 0

\* A leave-note removed the last member of a room while another room exists.
C9_Witness ==
    /\ last.op = "leave-note"
    /\ last.result = "room-deleted"
    /\ last.note \notin DOMAIN noteRooms
    /\ DOMAIN noteRooms # {}

----------------------------------------------------------------------------
(* C10 *)

\* C10: a join that resumes after its connection has disconnected fails and
\* inserts nothing: the disconnected connection is not listed in the room.
C10_JoinAfterDisconnectInsertsNothing ==
    (/\ last.op = "join-note"
     /\ last.result # "awaiting"
     /\ connState[last.conn] = "dead")
    => /\ last.result # "joined"
       /\ ~Listed(noteRooms, last.note, last.conn)

----------------------------------------------------------------------------
(* C11 *)

\* The handler that ran last is a join-note that passed the authorization check.
Joined == last.op = "join-note" /\ last.result = "joined"

\* C11: the member list carried by a join's user-joined and joined-note events
\* is the room's roster right after that join's own insert, with no step of
\* another transition in between: both events are its last two emissions, both
\* were emitted with the room table as the handler left it, and their list is
\* that roster.
C11_JoinSnapshotIsOwnInsert ==
    Joined =>
        LET k == Len(outbox)
        IN  /\ k >= 2
            /\ outbox[k - 1].ev = "user-joined"
            /\ outbox[k].ev = "joined-note"
            /\ \A i \in {k - 1, k} :
                  /\ outbox[i].rooms = noteRooms
                  /\ outbox[i].activeUsers = ActiveUsers(noteRooms[last.note])

\* A join completed while the join of another user's connection for the same
\* room was still awaiting its lookup; its list does not hold that user.
C11_Witness ==
    /\ Joined
    /\ \E p \in pending :
          /\ p.op = "join-note"
          /\ p.conn # last.conn
          /\ p.note = last.note
          /\ Allowed(p.res, socketUser[p.conn], "read")
          /\ \A i \in 1..Len(outbox[Len(outbox)].activeUsers) :
                outbox[Len(outbox)].activeUsers[i] # socketUser[p.conn]

----------------------------------------------------------------------------
(* C12 *)

\* C12: a successful join of room n sends user-joined, naming the joiner, to
\* every other open connection listed in n and not to the joiner, and sends
\* joined-note to the joining connection alone; both carry the same member
\* list, which contains the joiner.
C12_JoinNotifications ==
    Joined =>
        LET k == Len(outbox)
            c == last.conn
            n == last.note
        IN  /\ k >= 2
            /\ \A i \in 1..k :
                  outbox[i].ev \in {"user-joined", "joined-note"} => i >= k - 1
            /\ outbox[k - 1].ev = "user-joined"
            /\ outbox[k - 1].note = n
            /\ outbox[k - 1].user = socketUser[c]
            /\ c \notin outbox[k - 1].to
            /\ \A d \in Conns :
                  (d # c /\ Live(d) /\ Listed(noteRooms, n, d)) => d \in outbox[k - 1].to
            /\ outbox[k].ev = "joined-note"
            /\ outbox[k].note = n
            /\ outbox[k].to \subseteq {c}
            /\ Live(c) => outbox[k].to = {c}
            /\ outbox[k].activeUsers = outbox[k - 1].activeUsers
            /\ \E i \in 1..Len(outbox[k].activeUsers) :
                  outbox[k].activeUsers[i] = socketUser[c]

\* A second user joined a room: the first member was sent user-joined and the
\* list holds both.
C12_Witness ==
    /\ Joined
    /\ Live(last.conn)
    /\ outbox[Len(outbox) - 1].to # {}
    /\ Len(outbox[Len(outbox)].activeUsers) = 2

----------------------------------------------------------------------------
(* C13 *)

\* C13: after leave-note(n) from a connection that occupied n, the user has no
\* entry in n; if the room still exists, exactly one user-left naming the user
\* was emitted, to every open connection listed in n and not to the leaver,
\* carrying the roster after the removal; if the room was deleted, or no longer
\* exists, nothing was emitted.
C13_LeaveNotifiesRemaining ==
    (last.op = "leave-note" /\ last.result \in {"left", "room-deleted"}) =>
        LET c == last.conn
            n == last.note
            u == socketUser[c]
        IN  /\ ~UserListed(noteRooms, n, u)
            /\ ~Occupies(c, n)
            /\ last.result = "room-deleted" => n \notin DOMAIN noteRooms
            /\ IF n \in DOMAIN noteRooms
               THEN /\ Len(noteRooms[n]) > 0
                    /\ Len(outbox) = 1
                    /\ outbox[1].ev = "user-left"
                    /\ outbox[1].note = n
                    /\ outbox[1].user = u
                    /\ outbox[1].activeUsers = ActiveUsers(noteRooms[n])
                    /\ c \notin outbox[1].to
                    /\ \A d \in Conns :
                          (Live(d) /\ Listed(noteRooms, n, d)) => d \in outbox[1].to
               ELSE outbox = <<>>

\* A member left a room that keeps another member, who was told.
C13_Witness ==
    /\ last.op = "leave-note"
    /\ last.result = "left"
    /\ Len(outbox) = 1
    /\ outbox[1].to # {}
    /\ last.note \in DOMAIN noteRooms

----------------------------------------------------------------------------
(* C14 *)

\* C14: a cursor-update, or a note-update that passed the write check, from a
\* connection occupying room n emits one event naming the sender, delivered to
\* every other open connection listed in n and not to the sender; noteRooms,
\* the transport rooms and the stored notes are unchanged.
C14_UpdateFanOut ==
    [][(/\ \/ last'.op = "cursor-update"
           \/ last'.op = "note-update" /\ last'.result = "sent"
        /\ last'.note \in socketRooms[last'.conn]) =>
            LET c == last'.conn
                n == last'.note
            IN  /\ Len(outbox') = 1
                /\ outbox'[1].ev =
                      (IF last'.op = "cursor-update" THEN "cursor-updated"
                                                    ELSE "note-updated")
                /\ outbox'[1].note = n
                /\ outbox'[1].user = socketUser[c]
                /\ c \notin outbox'[1].to
                /\ \A d \in Conns :
                      (d # c /\ Live(d) /\ Listed(noteRooms, n, d)) => d \in outbox'[1].to
                /\ UNCHANGED <<noteRooms, socketRooms, notes>>]_vars

\* A member's content update passed the write check and reached another member.
C14_Witness ==
    /\ last.op = "note-update"
    /\ last.result = "sent"
    /\ Occupies(last.conn, last.note)
    /\ outbox[1].to # {}

----------------------------------------------------------------------------
(* C15 *)

\* User u is the owner of stored note n or one of its write collaborators.
MayWrite(n, u) ==
    /\ n \in DOMAIN notes
    /\ \/ notes[n].owner = u
       \/ \E i \in 1..Len(notes[n].collaborators) :
             /\ notes[n].collaborators[i].user = u
             /\ notes[n].collaborators[i].role = "write"

\* C15: note-updated is emitted only for a sender who owns the note or is a
\* write collaborator; a note-update from anyone else ends in one error to the
\* sender and nothing else; a cursor-update from a connection occupying the
\* room is broadcast whatever the sender's role.
C15_WriteRequiredForContentOnly ==
    /\ \A i \in 1..Len(outbox) :
          outbox[i].ev = "note-updated" => MayWrite(outbox[i].note, outbox[i].user)
    /\ (/\ last.op = "note-update"
        /\ last.result # "awaiting"
        /\ ~MayWrite(last.note, socketUser[last.conn]))
       => /\ Len(outbox) = 1
          /\ outbox[1].ev = "error"
          /\ outbox[1].to \subseteq {last.conn}
    /\ (last.op = "cursor-update" /\ Occupies(last.conn, last.note))
       => /\ Len(outbox) = 1
          /\ outbox[1].ev = "cursor-updated"
          /\ outbox[1].to = SocketTo(socketRooms, last.conn, last.note)

\* A read collaborator who occupies the room with another member had a
\* note-update refused.
C15_Witness ==
    /\ last.op = "note-update"
    /\ last.result = "denied"
    /\ Occupies(last.conn, last.note)
    /\ last.note \in DOMAIN notes
    /\ \E i \in 1..Len(notes[last.note].collaborators) :
          /\ notes[last.note].collaborators[i].user = socketUser[last.conn]
          /\ notes[last.note].collaborators[i].role = "read"
    /\ SocketTo(socketRooms, last.conn, last.note) # {}

----------------------------------------------------------------------------
(* C16 *)

\* The handler that ran last ended in an error.
Rejected ==
    /\ last.op \in {"join-note", "note-update"}
    /\ last.result \in {"denied", "failed"}

\* The handler that ran last was an update naming a room its sender is not in.
NotInRoom ==
    /\ last.op \in {"note-update", "cursor-update"}
    /\ last.result # "awaiting"
    /\ ~Occupies(last.conn, last.note)

\* C16: an operation that is to be rejected (access denied on join, write
\* denied or sender not in the room on update, lookup failure) emits exactly
\* one event, an error addressed to the originating connection and to no other.
C16_ErrorToOriginatorOnly ==
    (Rejected \/ NotInRoom) =>
        /\ Len(outbox) = 1
        /\ outbox[1].ev = "error"
        /\ outbox[1].to \subseteq {last.conn}

----------------------------------------------------------------------------
(* C17 *)

\* C17: running the disconnect handler again for a connection that has already
\* been disconnected changes neither noteRooms nor userSockets and emits
\* nothing.
C17_SecondDisconnectIsNoOp ==
    \A c \in Conns :
        connState[c] = "dead" =>
            LET h == DisconnectHandler(noteRooms, socketRooms, userSockets,
                                       c, socketUser[c])
            IN  /\ h.rooms = noteRooms
                /\ h.userSockets = userSockets
                /\ h.out = <<>>

----------------------------------------------------------------------------
(* C18 *)

\* C18: a connection refused by the authentication middleware has no identity,
\* no userSockets entry, no room, no roster entry and no handler suspended or
\* run for it; userSockets holds real users only, and exactly the connections
\* that passed the middleware carry an identity.
C18_RefusedBeforeRegistration ==
    /\ \A c \in Conns :
          connState[c] = "refused" =>
              /\ socketUser[c] = NoUser
              /\ socketRooms[c] = {}
              /\ RoomsListing(noteRooms, c) = {}
              /\ \A u \in DOMAIN userSockets : userSockets[u] # c
              /\ \A p \in pending : p.conn # c
              /\ last.conn = c => last.op = "connect"
    /\ DOMAIN userSockets \subseteq Users
    /\ \A c \in Conns :
          connState[c] \in {"live", "dead"} <=> socketUser[c] \in Users

\* A handshake was refused while another, authenticated connection is in a room.
C18_Witness ==
    /\ last.op = "connect"
    /\ last.result = "refused"
    /\ connState[last.conn] = "refused"
    /\ \E d \in Conns :
          /\ Live(d)
          /\ socketRooms[d] # {}
          /\ userSockets[socketUser[d]] = d

----------------------------------------------------------------------------
(* C19 *)

\* C19: every connection a room-scoped event of note n is delivered to is, when
\* the event is emitted, listed in noteRooms[n] under its own connection id.
C19_RecipientsAreListed ==
    \A i \in 1..Len(outbox) :
        outbox[i].ev \in {"user-joined", "user-left", "note-updated", "cursor-updated"}
        => \A d \in outbox[i].to :
              ListedAs(outbox[i].rooms, outbox[i].note, d, socketUser[d])

----------------------------------------------------------------------------
(* C20 *)

\* C20: for every note id the query returns one entry per user, and the users
\* returned are exactly the users with an open connection in the room (none
\* when there is no room); the query is an expression over noteRooms and
\* changes nothing.
C20_PresenceQueryIsExact ==
    \A n \in NoteIds :
        LET r == GetActiveUsersInNote(noteRooms, n)
        IN  /\ \A i, j \in 1..Len(r) : r[i].userId = r[j].userId => i = j
            /\ {r[i].userId : i \in 1..Len(r)} =
                  {socketUser[c] : c \in {d \in Conns : Live(d) /\ Occupies(d, n)}}
            /\ n \notin DOMAIN noteRooms => r = <<>>

----------------------------------------------------------------------------
(* C27 *)

\* C27: an accepted join-note(n) from a connection that already occupies room
\* n and is listed in it emits no user-left for n and leaves the roster of n
\* as it was.
C27_RejoinSameRoomIsQuiet ==
    [][(/\ JoinedStep
        /\ last'.note \in socketRooms[last'.conn]
        /\ Listed(noteRooms, last'.note, last'.conn)) =>
          /\ \A i \in 1..Len(outbox') :
                outbox'[i].ev = "user-left" => outbox'[i].note # last'.note
          /\ noteRooms'[last'.note] = noteRooms[last'.note]]_vars

----------------------------------------------------------------------------
(* Vocabulary of the REST properties *)

\* User u owns stored note n / has an entry in its collaborators with role r.
Owns(db, n, u) == n \in DOMAIN db /\ db[n].owner = u
Collaborates(db, n, u, r) ==
    /\ n \in DOMAIN db
    /\ \E i \in 1..Len(db[n].collaborators) :
          db[n].collaborators[i].user = u /\ db[n].collaborators[i].role = r

\* The controller of route op ran for an authenticated user on a stored note
\* in the step just taken.
Handled(op) ==
    /\ http'.op = op
    /\ http'.user \in Users
    /\ http'.note \in DOMAIN notes

----------------------------------------------------------------------------
(* C21 *)

\* C21: an authorized PUT whose content differs from the note's content adds
\* exactly one entry to versions, holding the content before the update and
\* the updating user, and sets the note's content to the new content.
C21_UpdateCreatesVersion ==
    [][(/\ Handled("update")
        /\ http'.status = 200
        /\ http'.args.content # Undefined
        /\ http'.args.content # notes[http'.note].content) =>
          LET old == notes[http'.note]
              new == notes'[http'.note]
          IN  /\ new.content = http'.args.content
              /\ Len(new.versions) = Len(old.versions) + 1
              /\ new.versions[Len(new.versions)] =
                    [content |-> old.content, modifiedBy |-> http'.user]]_vars

----------------------------------------------------------------------------
(* C22 *)

\* C22: isUserAuthorized gives the owner and a write collaborator read and
\* write, a read collaborator read only and anyone else nothing; GET
\* /api/notes/:id is answered 200 exactly for the owner and the collaborators
\* (403 for the rest), PUT exactly for the owner and the write collaborators.
C22_RoleBasedAccess ==
    /\ \A n \in DOMAIN notes, u \in Users :
          LET read == IsUserAuthorized(notes[n], u, "read")
              write == IsUserAuthorized(notes[n], u, "write")
          IN  /\ write => read
              /\ write <=> (Owns(notes, n, u) \/ Collaborates(notes, n, u, "write"))
              /\ read <=> \/ Owns(notes, n, u)
                           \/ Collaborates(notes, n, u, "write")
                           \/ Collaborates(notes, n, u, "read")
    /\ (http.op = "get" /\ http.user \in Users /\ http.note \in DOMAIN notes)
       => (http.status = 200 <=> IsUserAuthorized(notes[http.note], http.user, "read"))
    /\ (/\ http.op = "update" /\ http.user \in Users /\ http.note \in DOMAIN notes
        /\ http.status # 400)
       => (http.status = 200 <=> IsUserAuthorized(notes[http.note], http.user, "write"))

----------------------------------------------------------------------------
(* C23 *)

\* C23: DELETE /api/notes/:id from a user who is not the owner, a write
\* collaborator included, is answered 403 and changes no note; from the owner
\* it is answered 200 and removes the note, so that a lookup finds nothing.
C23_OnlyOwnerDeletes ==
    [][Handled("delete") =>
          IF notes[http'.note].owner = http'.user
          THEN /\ http'.status = 200
               /\ FindById(notes', http'.note).kind = "null"
               /\ \A n \in DOMAIN notes \ {http'.note} :
                     n \in DOMAIN notes' /\ notes'[n] = notes[n]
          ELSE /\ http'.status = 403
               /\ notes' = notes]_vars

\* A collaborator with role 'write' asked for the deletion and was refused.
C23_Witness ==
    /\ http.op = "delete"
    /\ http.status = 403
    /\ Collaborates(notes, http.note, http.user, "write")
    /\ ~Owns(notes, http.note, http.user)

----------------------------------------------------------------------------
(* C24 *)

\* C24: the collaborators of a stored note change only in a step that serves
\* an add- or remove-collaborator request of the note's owner; such a request
\* from anyone else is answered 403 and changes no note; no request changes
\* the owner of a note.
C24_OnlyOwnerManagesCollaborators ==
    [][/\ \A n \in DOMAIN notes \cap DOMAIN notes' :
            /\ notes'[n].owner = notes[n].owner
            /\ notes'[n].collaborators # notes[n].collaborators =>
                  /\ http'.op \in {"add-collaborator", "remove-collaborator"}
                  /\ http'.note = n
                  /\ http'.user = notes[n].owner
                  /\ http'.status = 200
       /\ (/\ Handled("add-collaborator") \/ Handled("remove-collaborator")
           /\ http'.args.target # BadUser
           /\ http'.user # notes[http'.note].owner)
          => /\ http'.status = 403
             /\ notes' = notes]_vars

\* A collaborator with role 'write' tried to add a collaborator and was refused.
C24_Witness ==
    /\ http.op = "add-collaborator"
    /\ http.status = 403
    /\ Collaborates(notes, http.note, http.user, "write")
    /\ ~Owns(notes, http.note, http.user)

----------------------------------------------------------------------------
(* C25 *)

\* The notes user u owns or collaborates on.
Accessible(u) ==
    {n \in DOMAIN notes :
        Owns(notes, n, u) \/ \E r \in Roles : Collaborates(notes, n, u, r)}

----------------------------------------------------------------------------
(* C26 *)

\* C26: a request to any note route without a token is answered 401, one with
\* a token that fails verification 403; the reply carries no data and no note
\* is created, modified or deleted by the request.
C26_RoutesRequireAuthentication ==
    [][http'.user \notin Users =>
          /\ http'.status = (IF http'.user = NoToken THEN 401 ELSE 403)
          /\ http'.data = NoData
          /\ notes' = notes]_vars

\* POST /api/notes without a token was answered 401.
C26_Witness ==
    /\ http.op = "create"
    /\ http.user = NoToken
    /\ http.status = 401
    /\ MissingNote \notin DOMAIN notes

----------------------------------------------------------------------------
(* C30 *)

\* No note lists a user twice among its collaborators.
OneEntryPerCollaborator ==
    \A n \in DOMAIN notes :
        \A i, j \in 1..Len(notes[n].collaborators) :
            notes[n].collaborators[i].user = notes[n].collaborators[j].user => i = j

\* C30: a note's collaborators hold at most one entry per user; an accepted
\* add of a user already listed changes that entry's role where it stands and
\* nothing else, an accepted add of a new user appends one entry; after an
\* accepted remove the user has no entry and, unless the owner, no access.
C30_CollaboratorsUniquePerUser ==
    /\ []OneEntryPerCollaborator
    /\ [][(Handled("add-collaborator") /\ http'.status = 200) =>
            LET old == notes[http'.note].collaborators
                new == notes'[http'.note].collaborators
                u == http'.args.target
            IN  IF \E i \in 1..Len(old) : old[i].user = u
                THEN /\ Len(new) = Len(old)
                     /\ \A i \in 1..Len(old) :
                           new[i] = IF old[i].user = u
                                    THEN [user |-> u, role |-> http'.args.role]
                                    ELSE old[i]
                ELSE new = Append(old, [user |-> u, role |-> http'.args.role])]_vars
    /\ [][(Handled("remove-collaborator") /\ http'.status = 200) =>
            LET new == notes'[http'.note]
                u == http'.args.target
            IN  /\ \A i \in 1..Len(new.collaborators) : new.collaborators[i].user # u
                /\ \A i \in 1..Len(new.collaborators) :
                      \E j \in 1..Len(notes[http'.note].collaborators) :
                          new.collaborators[i] = notes[http'.note].collaborators[j]
                /\ (u \in Users /\ new.owner # u) =>
                      /\ ~IsUserAuthorized(new, u, "read")
                      /\ ~IsUserAuthorized(new, u, "write")]_vars

\* The owner added a user who was already listed before another collaborator:
\* the entry kept its place in a list of two.
C30_Witness ==
    /\ http.op = "add-collaborator"
    /\ http.status = 200
    /\ http.note \in DOMAIN notes
    /\ Len(notes[http.note].collaborators) = 2
    /\ notes[http.note].collaborators[1] =
          [user |-> http.args.target, role |-> http.args.role]

----------------------------------------------------------------------------
(* C29 *)

\* C29: versions never holds more than 50 entries; an addVersion call with the
\* note's current content changes nothing; any other call appends one entry
\* and, when that makes 51, drops the oldest one, the 50 most recent keeping
\* their order.
C29_VersionsCappedAtFifty ==
    /\ \A n \in DOMAIN notes : Len(notes[n].versions) <= 50
    /\ http.op = "addVersion" =>
          LET old == http.data.before
              new == notes[http.note]
              k == Len(old.versions)
          IN  IF http.args.content = old.content
              THEN new = old
              ELSE /\ new.content = old.content
                   /\ Len(new.versions) = (IF k < 50 THEN k + 1 ELSE 50)
                   /\ new.versions[Len(new.versions)].content = old.content
                   /\ new.versions[Len(new.versions)].modifiedBy = http.user
                   /\ \A i \in 1..(Len(new.versions) - 1) :
                         new.versions[i] = old.versions[i + (k + 1 - Len(new.versions))]

\* A call on a document with 50 versions pushed a 51st and the oldest went.
C29_Witness ==
    /\ http.op = "addVersion"
    /\ Len(http.data.before.versions) = 50
    /\ http.args.content # http.data.before.content
    /\ Len(notes[http.note].versions) = 50
    /\ notes[http.note].versions[1] = http.data.before.versions[2]
    /\ notes[http.note].versions[1] # http.data.before.versions[1]

----------------------------------------------------------------------------
(* C28 *)

\* User u is neither the owner nor a collaborator of stored note n.
NoAccess(n, u) ==
    /\ n \in DOMAIN notes
    /\ ~Owns(notes, n, u)
    /\ \A r \in Roles : ~Collaborates(notes, n, u, r)

\* C28: removing a collaborator changes no room, roster or connection; a
\* connection that occupies a room is sent the room's updates whether or not
\* its user still has access to the note; a join-note or note-update whose
\* lookup reads the note after the user lost access (or never had it) ends in
\* one error to the sender, with no broadcast and no change of a room.
C28_AuthorizationAtTransitionsOnly ==
    /\ [][http' # http => UNCHANGED sockets]_vars
    /\ [][(/\ \/ last'.op = "cursor-update"
              \/ (last'.op = "note-update" /\ last'.result = "sent")
           /\ last'.note \in socketRooms[last'.conn]) =>
              \A d \in Conns \ {last'.conn} :
                  (Live(d) /\ Occupies(d, last'.note)) => d \in outbox'[1].to]_vars
    /\ [][\A p \in pending \ pending' :
              (/\ p.res = FindById(notes, p.note)
               /\ NoAccess(p.note, socketUser[p.conn])) =>
                  /\ last' = Event(p.op, p.conn, p.note, "denied")
                  /\ Len(outbox') = 1
                  /\ outbox'[1].ev = "error"
                  /\ outbox'[1].to \subseteq {p.conn}
                  /\ UNCHANGED <<noteRooms, socketRooms>>]_vars

\* The owner removed a collaborator who is present in the note's room; the
\* user is still in the roster and had a note-update refused afterwards.
C28_Witness ==
    /\ http.op = "remove-collaborator"
    /\ http.status = 200
    /\ last.op = "note-update"
    /\ last.result = "denied"
    /\ last.note = http.note
    /\ socketUser[last.conn] = http.args.target
    /\ Live(last.conn)
    /\ Occupies(last.conn, last.note)
    /\ ListedAs(noteRooms, last.note, last.conn, socketUser[last.conn])
    /\ NoAccess(last.note, socketUser[last.conn])

----------------------------------------------------------------------------
(* C31 *)

\* The step is a departure of a connection: a leave-note, the room switch of
\* an accepted join-note, or a disconnect.
Departure ==
    \/ last'.op = "leave-note"
    \/ JoinedStep
    \/ last'.op = "disconnect"

\* C31: a leave-note, room switch or disconnect of one connection leaves in
\* place every roster entry whose socketId is another live connection, in
\* every room other than the one being joined, and that connection stays in
\* its room.
C31_OtherConnectionsEntryKept ==
    [][\A d \in Conns : \A n \in NoteIds :
          (/\ Departure
           /\ d # last'.conn
           /\ Live(d)
           /\ Listed(noteRooms, n, d)
           /\ JoinedStep => n # last'.note) =>
              /\ ListedAs(noteRooms', n, d, socketUser[d])
              /\ Occupies(d, n) => n \in socketRooms'[d]]_vars

----------------------------------------------------------------------------
(* C32 *)

\* C32: userSockets has an entry for every user with a live connection, and
\* every entry names a live connection of its user.
C32_UserSocketsTracksLive ==
    /\ \A c \in Conns : Live(c) => socketUser[c] \in DOMAIN userSockets
    /\ \A u \in DOMAIN userSockets :
          Live(userSockets[u]) /\ socketUser[userSockets[u]] = u

----------------------------------------------------------------------------
(* C33 *)

\* The handler that ran last is a join-note that has run to its end.
JoinEnded == last.op = "join-note" /\ last.result # "awaiting"

\* The emissions of the last handler that answer a join-note.
Answers == {i \in 1..Len(outbox) : outbox[i].ev \in {"joined-note", "error"}}

\* The join-note handler suspended as p has run to its end.
Answered(p) == JoinEnded /\ last.conn = p.conn /\ last.note = p.note

\* "Eventually answered" is stated in two parts: a suspended join-note leaves
\* the set of suspended handlers only in the step that runs it to its end,
\* and no join-note stays suspended for ever.

\* C33 as stated: every join-note request is eventually answered with exactly
\* one of joined-note and error, delivered to the requesting connection;
\* joined-note is sent with the requester's entry in the roster, error only
\* when the request changed no state.
C33_JoinAnsweredToRequester ==
    /\ [](JoinEnded =>
            /\ Cardinality(Answers) = 1
            /\ \A i \in Answers :
                  /\ outbox[i].to = {last.conn}
                  /\ outbox[i].ev = "joined-note" =>
                        ListedAs(outbox[i].rooms, last.note, last.conn,
                                 socketUser[last.conn]))
    /\ [][(/\ last'.op = "join-note"
           /\ \E i \in 1..Len(outbox') : outbox'[i].ev = "error") =>
              UNCHANGED <<notes, noteRooms, socketRooms, userSockets>>]_vars
    /\ [][\A p \in pending \ pending' : p.op = "join-note" => Answered(p)']_vars
    /\ \A p \in JoinRequests : []<>(p \notin pending)

\* C33, amended: every join-note request eventually has exactly one of
\* joined-note and error emitted on the requesting socket; the event reaches
\* the requesting connection alone if it is still open, and no connection if
\* it was closed while the lookup was pending; joined-note is emitted with the
\* requester's entry in the roster, error only when the request changed no
\* state.
C33_JoinAnsweredOnce ==
    /\ [](JoinEnded =>
            /\ Cardinality(Answers) = 1
            /\ \A i \in Answers :
                  /\ outbox[i].to = IF Live(last.conn) THEN {last.conn} ELSE {}
                  /\ outbox[i].ev = "joined-note" =>
                        ListedAs(outbox[i].rooms, last.note, last.conn,
                                 socketUser[last.conn]))
    /\ [][(/\ last'.op = "join-note"
           /\ \E i \in 1..Len(outbox') : outbox'[i].ev = "error") =>
              UNCHANGED <<notes, noteRooms, socketRooms, userSockets>>]_vars
    /\ [][\A p \in pending \ pending' : p.op = "join-note" => Answered(p)']_vars
    /\ \A p \in JoinRequests : []<>(p \notin pending)

\* A join of an open connection was refused with an error while a second
\* join-note of the same connection is still awaiting its lookup.
C33_Witness ==
    /\ JoinEnded
    /\ last.result = "denied"
    /\ Live(last.conn)
    /\ Answers = {1}
    /\ outbox[1].to = {last.conn}
    /\ \E p \in pending :
          /\ p.op = "join-note"
          /\ p.conn = last.conn
          /\ Allowed(p.res, socketUser[p.conn], "read")

====
